---- MODULE Spec2Model ----
(***************************************************************************)
(* MASQUE automated program repair pipeline.                               *)
(*                                                                         *)
(* The model covers the orchestrator (Agents/run_bug_supervision.py), the  *)
(* fix agent (Agents/bug_fix_agent.py), the detector                       *)
(* (bug_detection_agent.py), the reviewer (Agents/supervisor_agent.py),    *)
(* the test runner (unit_test_evaluation_agent.py) and the publisher       *)
(* (git_push_agent.py).                                                    *)
(*                                                                         *)
(* Text is a sequence of tokens.  A token is a record [c, k, s]: c is its  *)
(* class, k a name (a character, a word, a JSON key, a path segment) and s *)
(* the text nested in it (the inside of a JSON string, the value of a JSON *)
(* pair, the suffixes of a file name).  Python values are records          *)
(* [t, b, n, s]; a dict is a function from Keys to values, a missing key   *)
(* mapping to Absent.                                                      *)
(***************************************************************************)
EXTENDS Integers, Sequences, FiniteSets, TLC

(***************************************************************************)
(* Tokens and text                                                         *)
(***************************************************************************)
T(c) == [c |-> c, k |-> "", s |-> <<>>]
Ch(x) == [c |-> "CH", k |-> x, s |-> <<>>]
Word(w) == [c |-> "WORD", k |-> w, s |-> <<>>]
Code(w) == [c |-> "CODE", k |-> w, s |-> <<>>]
Lit(w) == [c |-> "LIT", k |-> w, s |-> <<>>]
StrTok(inner) == [c |-> "STR", k |-> "", s |-> inner]
Pair(key, val) == [c |-> "PAIR", k |-> key, s |-> val]

FENCE == T("FENCE")
NL == T("NL")
WS == T("WS")
LB == T("LB")
RB == T("RB")
\* a byte that is not valid UTF-8
BAD == T("BAD")

IsSpace(tok) == tok.c \in {"WS", "NL"}

\* [a-zA-Z]: a letter, or a word made of letters
IsAlpha(tok) == tok.c \in {"WORD"} \/ (tok.c = "CH" /\ tok.k \notin {"0", "1", "2"})

RECURSIVE LStrip(_)
LStrip(t) == IF t = <<>> THEN <<>>
             ELSE IF IsSpace(Head(t)) THEN LStrip(Tail(t)) ELSE t

RECURSIVE RStrip(_)
RStrip(t) == IF t = <<>> THEN <<>>
             ELSE IF IsSpace(t[Len(t)]) THEN RStrip(SubSeq(t, 1, Len(t) - 1)) ELSE t

\* str.strip()
Strip(t) == RStrip(LStrip(t))

LowerOf(x) == CASE x = "T" -> "t" [] x = "R" -> "r" [] x = "U" -> "u" [] x = "E" -> "e"
                [] x = "Y" -> "y" [] x = "S" -> "s" [] x = "N" -> "n" [] x = "O" -> "o"
                [] OTHER -> x

\* str.lower()
Lower(t) == [i \in 1..Len(t) |-> IF t[i].c = "CH" THEN Ch(LowerOf(t[i].k)) ELSE t[i]]

\* a Python string literal, character by character
Chars(cs) == [i \in 1..Len(cs) |-> Ch(cs[i])]

\* str.find(tok): the first index of tok, 0 when there is none (Python's -1)
Find(t, c) == IF \E i \in 1..Len(t) : t[i].c = c
              THEN CHOOSE i \in 1..Len(t) : t[i].c = c /\ \A j \in 1..(i - 1) : t[j].c # c
              ELSE 0

\* str.rfind(tok): the last index of tok, 0 when there is none
RFind(t, c) == IF \E i \in 1..Len(t) : t[i].c = c
               THEN CHOOSE i \in 1..Len(t) : t[i].c = c /\ \A j \in (i + 1)..Len(t) : t[j].c # c
               ELSE 0

\* the number of leading tokens that satisfy [a-zA-Z]
RECURSIVE AlphaRun(_, _)
AlphaRun(t, i) == IF i <= Len(t) /\ IsAlpha(t[i]) THEN AlphaRun(t, i + 1) ELSE i - 1

\* the end of the whitespace run that starts at i (i - 1 when it is empty)
RECURSIVE SpaceRun(_, _)
SpaceRun(t, i) == IF i <= Len(t) /\ IsSpace(t[i]) THEN SpaceRun(t, i + 1) ELSE i - 1

\* re.sub(r"^```[a-zA-Z]*\s*\n", "", t): the opening fence, its language tag and
\* the whitespace after it up to the last newline of that run
SubOpenFence(t) ==
    IF t = <<>> \/ Head(t).c # "FENCE" THEN t
    ELSE LET a == AlphaRun(t, 2)
             e == SpaceRun(t, a + 1)
             nls == {i \in (a + 1)..e : t[i].c = "NL"}
         IN IF nls = {} THEN t
            ELSE LET last == CHOOSE i \in nls : \A j \in nls : j <= i
                 IN SubSeq(t, last + 1, Len(t))

\* re.sub(r"\n```$", "", t): a newline and a fence that end the text
SubCloseFence(t) ==
    IF Len(t) >= 2 /\ t[Len(t)].c = "FENCE" /\ t[Len(t) - 1].c = "NL"
    THEN SubSeq(t, 1, Len(t) - 2)
    ELSE t

\* _strip_code_fences
StripCodeFences(text) ==
    LET t == Strip(text)
    IN IF t # <<>> /\ Head(t).c = "FENCE"
       THEN Strip(SubCloseFence(SubOpenFence(t)))
       ELSE t

\* the slice from the first "{" to the last "}" when both exist in that order
BraceSlice(t) ==
    LET start == Find(t, "LB")
        end == RFind(t, "RB")
    IN IF start # 0 /\ end # 0 /\ end > start THEN SubSeq(t, start, end) ELSE t

\* a cleaning that removes the fences and keeps the text around the braces
CleanJsonFencesOnly(text) == StripCodeFences(text)
\* _clean_json, _extract_json_from_text, _extract_json
CleanJson(text) == BraceSlice(StripCodeFences(text))

(***************************************************************************)
(* Python values, dicts and JSON                                           *)
(***************************************************************************)
VBool(x) == [t |-> "bool", b |-> x, n |-> 0, s |-> <<>>]
VNum(x) == [t |-> "num", b |-> FALSE, n |-> x, s |-> <<>>]
VStr(x) == [t |-> "str", b |-> FALSE, n |-> 0, s |-> x]
VList(len) == [t |-> "list", b |-> FALSE, n |-> len, s |-> <<>>]
VNone == [t |-> "none", b |-> FALSE, n |-> 0, s |-> <<>>]
\* what a dict holds for a key it does not have
Absent == [t |-> "absent", b |-> FALSE, n |-> 0, s |-> <<>>]

\* the keys the pipeline reads or writes; a decoded record keeps these and the
\* others play no part in any decision
Keys == {"file", "file_path", "has_bug", "error", "raw_response_text", "code_excerpt",
         "confirmed_bug", "corrected_has_bug", "fixed_code"}

EmptyDict == [k \in Keys |-> Absent]

\* dict.get(key, default)
Get(d, key, default) == IF d[key].t = "absent" THEN default ELSE d[key]

\* dict.setdefault(key, value)
SetDefault(d, key, value) == IF d[key].t = "absent" THEN [d EXCEPT ![key] = value] ELSE d

\* Python truthiness: bool(v), "if v", "v or w"
PyBool(v) == CASE v.t = "bool" -> v.b
               [] v.t = "num" -> v.n # 0
               [] v.t = "str" -> v.s # <<>>
               [] v.t = "list" -> v.n # 0
               [] OTHER -> FALSE

\* plain truthiness, under which the string "false" is affirmative
AsBoolTruthy(v) == PyBool(v)
\* _as_bool
AsBool(v) == CASE v.t = "bool" -> v.b
               [] v.t = "num" -> v.n # 0
               [] v.t = "str" -> Lower(Strip(v.s)) \in {Chars(<<"t", "r", "u", "e">>), Chars(<<"1">>),
                                                        Chars(<<"y", "e", "s">>), Chars(<<"y">>)}
               [] OTHER -> FALSE

\* the value of one JSON scalar token
JsonScalar(tok) ==
    CASE tok.c = "STR" -> VStr(tok.s)
      [] tok.c = "LIT" /\ tok.k = "true" -> VBool(TRUE)
      [] tok.c = "LIT" /\ tok.k = "false" -> VBool(FALSE)
      [] tok.c = "LIT" /\ tok.k = "null" -> VNone
      [] tok.c = "LIT" /\ tok.k = "0" -> VNum(0)
      [] tok.c = "LIT" /\ tok.k = "1" -> VNum(1)
      [] tok.c = "LIT" /\ tok.k = "2" -> VNum(2)
      [] tok.c = "LIT" /\ tok.k = "[]" -> VList(0)
      [] OTHER -> VList(1)

IsScalarTok(tok) == tok.c \in {"STR", "LIT"}

\* the decoded record of the pairs of t: a later pair of a key replaces an earlier one
RECURSIVE PairsToDict(_, _)
PairsToDict(t, d) ==
    IF t = <<>> THEN d
    ELSE IF Head(t).c = "PAIR" /\ Head(t).k \in Keys
         THEN PairsToDict(Tail(t), [d EXCEPT ![Head(t).k] = JsonScalar(Head(t).s[1])])
         ELSE PairsToDict(Tail(t), d)

\* json.loads: ok is FALSE when it raises; a decoded object has isdict TRUE and
\* its record in d, any other decoded value is in v
JsonLoads(text) ==
    LET u == Strip(text)
    IN IF Len(u) = 1 /\ IsScalarTok(u[1])
       THEN [ok |-> TRUE, isdict |-> FALSE, d |-> EmptyDict, v |-> JsonScalar(u[1])]
       ELSE IF /\ Len(u) >= 2
               /\ u[1].c = "LB"
               /\ u[Len(u)].c = "RB"
               /\ \A i \in 2..(Len(u) - 1) :
                      \/ IsSpace(u[i])
                      \/ u[i].c = "PAIR" /\ Len(u[i].s) = 1 /\ IsScalarTok(u[i].s[1])
            THEN [ok |-> TRUE, isdict |-> TRUE,
                  d |-> PairsToDict(SubSeq(u, 2, Len(u) - 1), EmptyDict), v |-> VNone]
            ELSE [ok |-> FALSE, isdict |-> FALSE, d |-> EmptyDict, v |-> VNone]

(***************************************************************************)
(* Files                                                                   *)
(***************************************************************************)
Seg(name, suffixes) == [c |-> "SEG", k |-> name, s |-> suffixes]
Ext(e) == [c |-> "EXT", k |-> e, s |-> <<>>]

\* ROOT_DIR, the repository root
ROOT_DIR == <<T("ROOT")>>

\* Path.is_absolute
IsAbsolute(p) == p # <<>> /\ Head(p).c = "ROOT"

\* a backup path that is the target itself
BackupPathSame(p) == p
\* target.with_suffix(target.suffix + ".bak")
BackupPath(p) == [p EXCEPT ![Len(p)] = Seg(p[Len(p)].k, p[Len(p)].s \o <<Ext("bak")>>)]

\* a file of the disk: whether it exists, and its bytes
NoFile == [exists |-> FALSE, data |-> <<>>]
File(bytes) == [exists |-> TRUE, data |-> bytes]

\* bytes.decode("utf-8", errors="ignore"): the invalid bytes are dropped
Decode(bytes) == SelectSeq(bytes, LAMBDA tok : tok.c # "BAD")

\* _sha256: a collision-free digest of the text
Sha256(text) == [digest |-> text]
NoHash == [digest |-> <<T("NOHASH")>>]

(***************************************************************************)
(* Bounds and inputs                                                       *)
(***************************************************************************)
\* how many files of the target tree are scanned
MaxFiles == 2

\* TARGET_DIR: ROOT_DIR / "python_programs", the default target directory
target_dir == ROOT_DIR \o <<Seg("python_programs", <<>>)>>

PyName(stem) == Seg(stem, <<Ext("py")>>)

\* the target tree in the order sorted(root.rglob("*.py")) yields it: a file of a
\* sub-package, a top-level file of the same name, another top-level file
TreeFiles == <<target_dir \o <<Seg("pkg", <<>>), PyName("x")>>,
               target_dir \o <<PyName("x")>>,
               target_dir \o <<PyName("y")>>>>

Scanned == {TreeFiles[i] : i \in 1..MaxFiles}

\* every path the run can name: the scanned files, the top-level file of each
\* scanned name, and their backups
SourcePaths == Scanned \cup {target_dir \o <<p[Len(p)]>> : p \in Scanned}
DiskPaths == SourcePaths \cup {BackupPath(p) : p \in SourcePaths}

BodyA == <<Code("a")>>
BodyB == <<Code("b"), NL, Code("c")>>

\* file contents: empty, one line, one line and a newline, one with an invalid byte
FileBodies == {<<>>, BodyA, BodyA \o <<NL>>, <<BAD>> \o BodyA}

Obj(pairs) == <<LB>> \o pairs \o <<RB>>
FixedCode(body) == Pair("fixed_code", <<StrTok(body)>>)
Reply(text) == [raised |-> FALSE, text |-> text]
\* the service call raises
ReplyRaises == [raised |-> TRUE, text |-> <<>>]

\* what the fix service answers to a call made from the orchestrator: an error, a
\* new body, the body of the file inside fences and prose, an empty body, a list
MainFixReplies ==
    {ReplyRaises,
     Reply(Obj(<<FixedCode(BodyB)>>)),
     Reply(<<FENCE, Word("json"), NL>> \o Obj(<<FixedCode(BodyA)>>) \o <<NL, FENCE, NL, Word("done")>>),
     Reply(Obj(<<FixedCode(<<>>)>>)),
     Reply(<<Lit("[1]")>>)}

\* and to a direct call of fix_bug: also a fenced body, prose, null, a body that
\* is a number, a body with a trailing newline, a blank body, an empty object
FixReplies ==
    MainFixReplies \cup
    {Reply(Obj(<<FixedCode(<<FENCE, Word("python"), NL, Code("b"), NL, FENCE>>)>>)),
     Reply(<<Word("sorry")>>),
     Reply(<<Lit("null")>>),
     Reply(Obj(<<Pair("fixed_code", <<Lit("1")>>)>>)),
     Reply(Obj(<<FixedCode(BodyA \o <<NL>>)>>)),
     Reply(Obj(<<FixedCode(<<WS, NL>>)>>)),
     Reply(Obj(<<>>))}

\* how target.write_text can behave: the whole body is written; the write is
\* silently discarded; opening the file raises and nothing is written
MainWriteEffects == {"full", "none", "raise"}

\* and in a direct call of fix_bug: also, a prefix of the body is written; the
\* write raises after a prefix was written
WriteEffects == MainWriteEffects \cup {"partial", "partial_raise"}

\* a short write: all but the last token
Prefix(text) == SubSeq(text, 1, Len(text) - 1)

(***************************************************************************)
(* State                                                                   *)
(***************************************************************************)
VARIABLES
    disk,    \* the files: path -> [exists, data]
    disk0,   \* the files when the program started
    fx,      \* the frame of the running fix_bug call
    pc,      \* where main is
    bug_reports,          \* scan_repo's reports
    final_results,        \* the ledger: one entry per report
    out_file,             \* bug_detection_with_supervision.json, as last written
    apply_fixes,          \* the answer to "Apply fixes now (y/N)?"
    idx,                  \* the entry the loop is at
    decisions,            \* per entry, the values of lines 225-234
    passed_fixed_files,   \* the list of that name
    do_push,              \* the answer to "Create branch & push to Git (y/N)?"
    vcs,                  \* the git commands that ran, in order
    fuse,                 \* the inputs and the verdict of one decision taken alone
    ev,                   \* the frame of one evaluate call taken alone
    repo,                 \* the repository of one GitPushAgent taken alone
    rc                    \* one service text and what each stage recovers from it

vars == <<disk, disk0, fx, pc, bug_reports, final_results, out_file, apply_fixes, idx,
          decisions, passed_fixed_files, do_push, vcs, fuse, ev, repo, rc>>
mainVars == <<pc, bug_reports, final_results, out_file, apply_fixes, idx,
              decisions, passed_fixed_files, do_push, vcs, fuse, ev, repo, rc>>

Exists(p) == p \in DOMAIN disk /\ disk[p].exists

(***************************************************************************)
(* BugFixAgent.fix_bug                                                     *)
(***************************************************************************)
NoResult == [status |-> "none", error |-> "", file_path |-> <<>>, backup_path |-> <<>>,
             before_hash |-> NoHash, after_hash |-> NoHash]
Result(status, error, path) == [NoResult EXCEPT !.status = status, !.error = error, !.file_path = path]

NoPlan == [ok |-> FALSE, isdict |-> FALSE, d |-> EmptyDict, v |-> VNone]

\* pc: where the call is; caller: who called; called_service: the fix service was
\* called; reply: its answer; proposed: line 135 ran, fixed_code holds the proposed
\* body; effect: how write_text behaved
IdleFrame == [pc |-> "idle", caller |-> "none", called_service |-> FALSE, reply |-> ReplyRaises,
              proposed |-> FALSE, report |-> EmptyDict, dry_run |-> FALSE,
              target |-> <<>>, original_code |-> <<>>, plan |-> NoPlan, fixed_code |-> <<>>,
              effect |-> "", result |-> NoResult]

\* the frame of a call fix_bug(report, dry_run=dry_run)
CallFrame(caller, report, dry_run) ==
    [IdleFrame EXCEPT !.pc = "entry", !.caller = caller, !.report = report, !.dry_run = dry_run]

Return(result) == fx' = [fx EXCEPT !.pc = "ret", !.result = result]
\* an exception leaves fix_bug
Raise == fx' = [fx EXCEPT !.pc = "raised"]

HasBugGate(report) == PyBool(Get(report, "has_bug", VBool(FALSE)))

\* lines 55-68: the path, the file, the original text, the has_bug check
FixEntry ==
    /\ fx.pc = "entry"
    /\ LET file_path == Get(fx.report, "file_path", VNone)
       IN IF ~PyBool(file_path)
          THEN Return(Result("error", "bug_report missing file_path", <<>>))
          ELSE IF file_path.t # "str"
          THEN Raise
          ELSE IF ~Exists(file_path.s)
          THEN Return(Result("error", "file_path does not exist", <<>>))
          ELSE IF ~HasBugGate(fx.report)
          THEN Return(Result("skipped", "has_bug=false in bug_report", file_path.s))
          ELSE fx' = [fx EXCEPT !.pc = "call", !.target = file_path.s,
                                !.original_code = Decode(disk[file_path.s].data)]
    /\ UNCHANGED <<disk, disk0, mainVars>>

RepliesFor(caller) == IF caller = "main" THEN MainFixReplies ELSE FixReplies
EffectsFor(caller) == IF caller = "main" THEN MainWriteEffects ELSE WriteEffects

\* lines 107-133: the call of the fix service and the recovery of its record
FixCallService ==
    /\ fx.pc = "call"
    /\ \E reply \in RepliesFor(fx.caller) :
          IF reply.raised
          THEN fx' = [fx EXCEPT !.pc = "ret", !.called_service = TRUE, !.reply = reply,
                                !.result = Result("error", "OpenAI API call failed", fx.target)]
          ELSE LET plan == JsonLoads(CleanJson(reply.text))
               IN IF ~plan.ok
                  THEN fx' = [fx EXCEPT !.pc = "ret", !.called_service = TRUE, !.reply = reply,
                                        !.result = Result("error", "Could not parse JSON from model",
                                                          fx.target)]
                  ELSE fx' = [fx EXCEPT !.pc = "decide", !.plan = plan, !.called_service = TRUE,
                                        !.reply = reply]
    /\ UNCHANGED <<disk, disk0, mainVars>>

\* (fix_plan or {}).get("fixed_code", "") or "": raises is TRUE when the plan is a
\* value other than a record that is not falsy, or the body is not a string
PlanBody(plan) ==
    LET d == IF plan.isdict THEN plan.d ELSE EmptyDict
        body == Get(d, "fixed_code", VStr(<<>>))
    IN IF ~plan.isdict /\ PyBool(plan.v)
       THEN [raises |-> TRUE, text |-> <<>>]
       ELSE IF ~PyBool(body)
       THEN [raises |-> FALSE, text |-> <<>>]
       ELSE IF body.t # "str"
       THEN [raises |-> TRUE, text |-> <<>>]
       ELSE [raises |-> FALSE, text |-> body.s]

\* a comparison that never finds the two fingerprints equal
SameContentNever(fixed_hash, original_hash) == FALSE
\* line 141: fixed_hash == original_hash
SameContent(fixed_hash, original_hash) == fixed_hash = original_hash

\* a fix that ignores the dry_run flag
DryRunIgnored(dry_run) == FALSE
\* line 149: if dry_run
IsDryRun(dry_run) == dry_run

\* lines 135-156: the proposed body, its fingerprint, the dry run
FixDecide ==
    /\ fx.pc = "decide"
    /\ LET body == PlanBody(fx.plan)
           fixed_code == StripCodeFences(body.text)
           at == [fx EXCEPT !.proposed = TRUE, !.fixed_code = fixed_code]
       IN IF body.raises
          THEN Raise
          ELSE IF Strip(fixed_code) = <<>>
          THEN fx' = [at EXCEPT !.pc = "ret", !.result = Result("no_fixed_code", "", fx.target)]
          ELSE IF SameContent(Sha256(fixed_code), Sha256(fx.original_code))
          THEN fx' = [at EXCEPT !.pc = "ret",
                                !.result = Result("no_change", "Model returned identical file content",
                                                  fx.target)]
          ELSE IF IsDryRun(fx.dry_run)
          THEN fx' = [at EXCEPT !.pc = "ret",
                                !.result = [Result("dry_run", "", fx.target) EXCEPT
                                               !.before_hash = Sha256(fx.original_code),
                                               !.after_hash = Sha256(fixed_code)]]
          ELSE fx' = [at EXCEPT !.pc = "backup_open"]
    /\ UNCHANGED <<disk, disk0, mainVars>>

\* line 159, shutil.copyfile(target, backup_path): the backup is opened for
\* writing, which creates or empties it, or the open raises
FixBackupOpen ==
    /\ fx.pc = "backup_open"
    /\ \E ok \in BOOLEAN :
          IF ok
          THEN /\ disk' = [disk EXCEPT ![BackupPath(fx.target)] = File(<<>>)]
               /\ fx' = [fx EXCEPT !.pc = "backup_copy"]
          ELSE Raise /\ UNCHANGED disk
    /\ UNCHANGED <<disk0, mainVars>>

\* a copy that leaves the backup empty
FixBackupSkipped ==
    /\ fx.pc = "backup_copy"
    /\ fx' = [fx EXCEPT !.pc = "write_open"]
    /\ UNCHANGED <<disk, disk0, mainVars>>

\* line 159, shutil.copyfile(target, backup_path): the bytes are copied
FixBackupCopy ==
    /\ fx.pc = "backup_copy"
    /\ disk' = [disk EXCEPT ![BackupPath(fx.target)] = File(disk[fx.target].data)]
    /\ fx' = [fx EXCEPT !.pc = "write_open"]
    /\ UNCHANGED <<disk0, mainVars>>

\* line 161, target.write_text(fixed_code): the target is opened for writing,
\* which empties it, unless the open raises or the write is discarded
FixWriteOpen ==
    /\ fx.pc = "write_open"
    /\ \E effect \in EffectsFor(fx.caller) :
          CASE effect = "raise" -> /\ fx' = [fx EXCEPT !.pc = "raised", !.effect = effect]
                                   /\ UNCHANGED disk
            [] effect = "none" -> /\ fx' = [fx EXCEPT !.pc = "verify", !.effect = effect]
                                  /\ UNCHANGED disk
            [] OTHER -> /\ fx' = [fx EXCEPT !.pc = "write_data", !.effect = effect]
                        /\ disk' = [disk EXCEPT ![fx.target] = File(<<>>)]
    /\ UNCHANGED <<disk0, mainVars>>

\* line 161, target.write_text(fixed_code): the body, or a prefix of it, is written
FixWriteData ==
    /\ fx.pc = "write_data"
    /\ disk' = [disk EXCEPT ![fx.target] =
                   File(IF fx.effect = "full" THEN fx.fixed_code ELSE Prefix(fx.fixed_code))]
    /\ fx' = [fx EXCEPT !.pc = IF fx.effect = "partial_raise" THEN "raised" ELSE "verify"]
    /\ UNCHANGED <<disk0, mainVars>>

\* a verification that accepts any re-read
PatchedUnverified(on_disk_hash, original_hash) == FALSE
\* line 166: on_disk_hash == original_hash
Unchanged(on_disk_hash, original_hash) == on_disk_hash = original_hash

\* lines 164-184: the file is read again; the result is patched when its
\* fingerprint differs from the original one, and else the rollback starts
FixVerify ==
    /\ fx.pc = "verify"
    /\ LET on_disk == Decode(disk[fx.target].data)
       IN IF Unchanged(Sha256(on_disk), Sha256(fx.original_code))
          THEN fx' = [fx EXCEPT !.pc = "rollback_open"]
          ELSE Return([Result("patched", "", fx.target) EXCEPT
                          !.backup_path = BackupPath(fx.target),
                          !.before_hash = Sha256(fx.original_code),
                          !.after_hash = Sha256(on_disk)])
    /\ UNCHANGED <<disk, disk0, mainVars>>

\* line 168, shutil.copyfile(backup_path, target): the target is opened for writing
FixRollbackOpen ==
    /\ fx.pc = "rollback_open"
    /\ disk' = [disk EXCEPT ![fx.target] = File(<<>>)]
    /\ fx' = [fx EXCEPT !.pc = "rollback_copy"]
    /\ UNCHANGED <<disk0, mainVars>>

\* lines 168-175: the bytes of the backup are copied back, the result is write_failed
FixRollbackCopy ==
    /\ fx.pc = "rollback_copy"
    /\ disk' = [disk EXCEPT ![fx.target] = File(disk[BackupPath(fx.target)].data)]
    /\ Return([Result("write_failed", "File did not change after write; rolled back", fx.target)
                  EXCEPT !.backup_path = BackupPath(fx.target)])
    /\ UNCHANGED <<disk0, mainVars>>

FixStep ==
    \/ FixEntry
    \/ FixCallService
    \/ FixDecide
    \/ FixBackupOpen
    \/ FixBackupCopy
    \/ FixWriteOpen
    \/ FixWriteData
    \/ FixVerify
    \/ FixRollbackOpen
    \/ FixRollbackCopy

(***************************************************************************)
(* fix_bug called directly, on any report                                  *)
(***************************************************************************)
\* the file fix_bug is called on
FixTarget == TreeFiles[2]

\* values of has_bug: booleans, numbers, strings, null, and a missing key
RawSignals ==
    {VBool(TRUE), VBool(FALSE), VNum(0), VNum(1), VNum(2), VNone, VList(0), VList(1), Absent,
     VStr(<<>>), VStr(Chars(<<"t", "r", "u", "e">>)), VStr(Chars(<<"T", "R", "U", "E">>)),
     VStr(<<WS>> \o Chars(<<"Y", "e", "s">>) \o <<NL>>), VStr(Chars(<<"y">>)),
     VStr(Chars(<<"1">>)), VStr(Chars(<<"0">>)), VStr(Chars(<<"f", "a", "l", "s", "e">>)),
     VStr(Chars(<<"n", "o">>)), VStr(Chars(<<"o", "n">>))}

\* the reports of a direct call: with or without a path, of a file that may not
\* exist, with has_bug true, false, the string "false", or missing
FixReports ==
    {[EmptyDict EXCEPT !["file_path"] = fp, !["has_bug"] = hb] :
        fp \in {Absent, VStr(<<>>), VNum(1), VStr(FixTarget)},
        hb \in {VBool(TRUE), VBool(FALSE), VStr(Chars(<<"f", "a", "l", "s", "e">>)), Absent}}

EmptyDisk == [p \in DiskPaths |-> NoFile]

NoFuse == [detector |-> Absent, review_is_dict |-> FALSE, confirmed |-> Absent,
           corrected |-> Absent, done |-> FALSE, bug_exists |-> FALSE,
           fix_agent |-> FALSE, fallback |-> FALSE, report_gate |-> FALSE]

\* an entry's unit_test_evaluation: not yet set; set by main without a test run
NoTest == [kind |-> "none", passed |-> FALSE, runner |-> "", test_stem |-> "", exit_code |-> 0,
           test_file |-> <<>>, tried |-> <<>>]
SkippedTest == [NoTest EXCEPT !.kind = "skipped"]

\* no evaluate call is under way
NoEval == [pc |-> "idle", scanned_exists |-> FALSE, stem |-> "", suffix_exists |-> FALSE,
           prefix_exists |-> FALSE, text |-> <<>>, timeout |-> FALSE, returncode |-> 0,
           test_file |-> <<>>, runner |-> "", result |-> NoTest]

\* no GitPushAgent is in use: g is the repository, log the calls made so far
NoRepo == [g |-> [origin_head |-> "", branches |-> {}, head |-> "", changed |-> {},
                  index |-> {}, commits |-> 0, remote_up |-> FALSE, pushed |-> {}],
           log |-> <<>>]

\* no text is being recovered
NoRecover == [pc |-> "idle", payload |-> <<>>, wrap |-> "", text |-> <<>>, code |-> <<>>,
              detector |-> NoPlan, reviewer |-> NoPlan, fixer |-> NoPlan, report_fixer |-> NoPlan,
              second_chance |-> NoPlan, stored |-> [raises |-> FALSE, report |-> EmptyDict],
              normalized |-> [isdict |-> FALSE, d |-> EmptyDict, v |-> VNone],
              report_normalized |-> EmptyDict]

\* main is not running
MainAt(where) ==
    /\ pc = where
    /\ bug_reports = <<>>
    /\ final_results = <<>>
    /\ out_file = <<>>
    /\ apply_fixes = FALSE
    /\ idx = 1
    /\ decisions = <<>>
    /\ passed_fixed_files = <<>>
    /\ do_push = FALSE
    /\ vcs = <<>>

InitFix ==
    /\ \E target \in {NoFile} \cup {File(b) : b \in FileBodies},
          backup \in {NoFile, File(<<Code("old")>>)} :
          disk = [EmptyDisk EXCEPT ![FixTarget] = target, ![BackupPath(FixTarget)] = backup]
    /\ disk0 = disk
    /\ \E report \in FixReports, dry_run \in BOOLEAN : fx = CallFrame("direct", report, dry_run)
    /\ MainAt("direct")
    /\ fuse = NoFuse
    /\ ev = NoEval
    /\ repo = NoRepo
    /\ rc = NoRecover

NextFix == FixStep

SpecFix == InitFix /\ [][NextFix]_vars

(***************************************************************************)
(* BugDetectionAgent.analyze_file                                          *)
(***************************************************************************)
ErrorText == VStr(<<Word("error")>>)

\* the name of the file of a path
NameOf(p) == <<p[Len(p)]>>

\* lines 81-87: fallback_report
FallbackReport(p) ==
    [EmptyDict EXCEPT !["file"] = VStr(NameOf(p)), !["file_path"] = VStr(p),
                      !["has_bug"] = VBool(FALSE)]

\* lines 135-140: the defaults of the keys the reply left out
NormalizeShape(report, p, code) ==
    SetDefault(SetDefault(SetDefault(SetDefault(report,
        "code_excerpt", VStr(code)),
        "file", VStr(NameOf(p))),
        "file_path", VStr(p)),
        "has_bug", VBool(FALSE))

\* lines 89-143: raises is TRUE when json.loads returns a value that is not a
\* record, on which setdefault raises
AnalyzeFile(p, code, reply) ==
    IF reply.raised
    THEN [raises |-> FALSE,
          report |-> NormalizeShape([FallbackReport(p) EXCEPT !["error"] = ErrorText], p, code)]
    ELSE LET j == JsonLoads(reply.text)
         IN IF ~j.ok
            THEN [raises |-> FALSE,
                  report |-> NormalizeShape([FallbackReport(p) EXCEPT
                                                !["error"] = ErrorText,
                                                !["raw_response_text"] = VStr(reply.text)], p, code)]
            ELSE IF ~j.isdict
            THEN [raises |-> TRUE, report |-> EmptyDict]
            ELSE [raises |-> FALSE, report |-> NormalizeShape(j.d, p, code)]

HasBug(v) == Pair("has_bug", <<Lit(v)>>)

\* what the diagnosis service answers for the file p: an error; the record asked
\* for, with a bug; a record without a bug; a fenced record with a bug
DetectorReplies(p) ==
    {ReplyRaises,
     Reply(Obj(<<Pair("file", <<StrTok(NameOf(p))>>), Pair("file_path", <<StrTok(p)>>),
                 HasBug("true")>>)),
     Reply(Obj(<<HasBug("false")>>)),
     Reply(<<FENCE, Word("json"), NL>> \o Obj(<<HasBug("true")>>) \o <<NL, FENCE>>)}

(***************************************************************************)
(* SupervisorAgent.review_report                                           *)
(***************************************************************************)
IsDict(x) == x.isdict
DictOf(d) == [isdict |-> TRUE, d |-> d, v |-> VNone]
NotDict(v) == [isdict |-> FALSE, d |-> EmptyDict, v |-> v]

\* lines 58-64: fallback
FallbackReview(bug_report) ==
    DictOf([EmptyDict EXCEPT
               !["confirmed_bug"] = VBool(FALSE),
               !["corrected_has_bug"] = VBool(PyBool(Get(bug_report, "has_bug", VNone)))])

\* lines 66-86: the decoded reply whatever it is, the fallback when anything raises
ReviewReport(bug_report, reply) ==
    IF reply.raised
    THEN FallbackReview(bug_report)
    ELSE LET j == JsonLoads(CleanJson(reply.text))
         IN IF ~j.ok THEN FallbackReview(bug_report)
            ELSE IF j.isdict THEN DictOf(j.d) ELSE NotDict(j.v)

\* what the review service answers: an error; a confirmation; a list
ReviewerReplies ==
    {ReplyRaises,
     Reply(Obj(<<Pair("confirmed_bug", <<Lit("true")>>), Pair("corrected_has_bug", <<Lit("true")>>)>>)),
     Reply(<<Lit("[1]")>>)}

(***************************************************************************)
(* UnitTestEvaluationAgent.evaluate                                        *)
(***************************************************************************)
\* the scanned names that have a test file under python_testcases/
TestedStems == {"x"}


\* how the test subprocess ends: exit code 0, exit code 1, subprocess.TimeoutExpired
TestOutcomes == {"exit0", "exit1", "timeout"}

\* Path.stem of a scanned file
StemOf(p) == p[Len(p)].k

\* an evaluation that passes whatever the exit code
PassedAlways(returncode) == TRUE
\* line 177: passed = (cp.returncode == 0)
Passed(returncode) == returncode = 0

\* _candidate_test_paths: the names tried under python_testcases/, in order
CandidateTestPaths(stem) ==
    <<<<Word(stem), Word("_test"), Ext("py")>>, <<Word("test_"), Word(stem), Ext("py")>>>>

\* _find_test_file: the first candidate that exists, <<>> when none does
FindTestFile(stem, suffix_exists, prefix_exists) ==
    IF suffix_exists THEN CandidateTestPaths(stem)[1]
    ELSE IF prefix_exists THEN CandidateTestPaths(stem)[2]
    ELSE <<>>

DOT == T("DOT")

\* the positions where a line of the text starts (^ under re.MULTILINE)
LineStarts(text) == {i \in 1..Len(text) : i = 1 \/ text[i - 1] = NL}

\* the position after the whitespace run that starts at i, 0 when the run is empty
AfterSpaces(text, i) == IF SpaceRun(text, i) >= i THEN SpaceRun(text, i) + 1 ELSE 0

\* re.search(r"^\s*from\s+\.\.?\S*\s+import\s+", text, flags=re.MULTILINE)
LooksLikeRelativeImportTest(text) ==
    \E i \in LineStarts(text) :
        LET f == SpaceRun(text, i) + 1
            d == AfterSpaces(text, f + 1)
            spaces == {k \in d..Len(text) : IsSpace(text[k])}
            e == IF spaces = {} THEN 0 ELSE CHOOSE k \in spaces : \A m \in spaces : k <= m
            w == IF e = 0 THEN 0 ELSE SpaceRun(text, e) + 1
        IN /\ f <= Len(text) /\ text[f] = Word("from")
           /\ d # 0 /\ d <= Len(text) /\ text[d] = DOT
           /\ w # 0 /\ w <= Len(text) /\ text[w] = Word("import")
           /\ AfterSpaces(text, w + 1) # 0

\* lines 80-83: "import pytest" in the text, or a line that starts with def test
LooksLikePytestByContent(text, name) ==
    \/ \E i \in 1..(Len(text) - 2) :
          text[i] = Word("import") /\ text[i + 1] = WS /\ text[i + 2] = Word("pytest")
    \/ \E i \in LineStarts(text) :
          LET f == SpaceRun(text, i) + 1
              n == AfterSpaces(text, f + 1)
          IN /\ f <= Len(text) /\ text[f] = Word("def")
             /\ n # 0 /\ n <= Len(text) /\ text[n] = Word("test")

\* _looks_like_pytest_test: by content, or by a file name that starts with test_
\* or ends with _test.py
LooksLikePytestTest(text, name) ==
    \/ LooksLikePytestByContent(text, name)
    \/ name # <<>> /\ Head(name) = Word("test_")
    \/ Len(name) >= 2 /\ name[Len(name) - 1] = Word("_test") /\ name[Len(name)] = Ext("py")

\* lines 152-161: the runner
SelectRunner(text, name) ==
    IF LooksLikePytestTest(text, name) THEN "pytest"
    ELSE IF LooksLikeRelativeImportTest(text) THEN "python-module"
    ELSE "python-file"

\* lines 121-147: the result returned before any test is run, NoTest when there
\* is a test file to run
EvaluateEarly(scanned_exists, stem, test_file) ==
    IF ~scanned_exists
    THEN [NoTest EXCEPT !.kind = "evaluated", !.runner = "none", !.exit_code = 2]
    ELSE IF test_file = <<>>
    THEN [NoTest EXCEPT !.kind = "evaluated", !.runner = "none", !.exit_code = 3,
                        !.tried = CandidateTestPaths(stem)]
    ELSE NoTest

\* lines 163-189: the result of the run of the test
EvaluateRun(stem, test_file, runner, timeout, returncode) ==
    IF timeout
    THEN [NoTest EXCEPT !.kind = "evaluated", !.runner = runner, !.test_stem = stem,
                        !.test_file = test_file, !.exit_code = 124]
    ELSE [NoTest EXCEPT !.kind = "evaluated", !.passed = Passed(returncode), !.runner = runner,
                        !.test_stem = stem, !.test_file = test_file, !.exit_code = returncode]

\* the text of the test files of the scanned names
TestText == <<Word("def"), WS, Word("test"), Word("_x"), NL>>

\* lines 120-189, for a scanned name whose test is the file <stem>_test.py
Evaluate(scanned_file, outcome) ==
    LET stem == StemOf(scanned_file)
        test_file == FindTestFile(stem, stem \in TestedStems, FALSE)
        early == EvaluateEarly(Exists(scanned_file), stem, test_file)
    IN IF early # NoTest THEN early
       ELSE EvaluateRun(stem, test_file, SelectRunner(TestText, test_file),
                        outcome = "timeout", IF outcome = "exit0" THEN 0 ELSE 1)

\* the outcomes the call can have: one when no test runs
OutcomesFor(scanned_file) ==
    IF Exists(scanned_file) /\ StemOf(scanned_file) \in TestedStems
    THEN TestOutcomes ELSE {"exit0"}

(***************************************************************************)
(* evaluate called alone, on any test file                                 *)
(***************************************************************************)
\* test files: a pytest function; a driver with a relative import; a plain
\* script; an import of pytest; a relative import from one dot, indented; an
\* absolute import; an empty file
EvalTexts ==
    {<<Word("def"), WS, Word("test"), Word("_addition"), NL>>,
     <<Word("from"), WS, DOT, DOT, WS, Word("import"), WS, Word("target"), NL>>,
     <<Code("a"), NL>>,
     <<Word("import"), WS, Word("pytest"), NL>>,
     <<Code("a"), NL, WS, Word("from"), WS, DOT, Word("x"), WS, Word("import"), WS, Word("y")>>,
     <<Word("from"), WS, Word("x"), WS, Word("import"), WS, Word("y"), NL>>,
     <<>>}

\* the exit codes of the test subprocess
ReturnCodes == {0, 1, 2, 3, 5, 124}

InitEval ==
    /\ disk = EmptyDisk
    /\ disk0 = disk
    /\ fx = IdleFrame
    /\ MainAt("eval")
    /\ fuse = NoFuse
    /\ repo = NoRepo
    /\ rc = NoRecover
    /\ \E scanned_exists \in BOOLEAN, suffix_exists \in BOOLEAN, prefix_exists \in BOOLEAN,
          text \in EvalTexts, timeout \in BOOLEAN, returncode \in ReturnCodes :
          ev = [NoEval EXCEPT !.pc = "call", !.scanned_exists = scanned_exists, !.stem = "x",
                              !.suffix_exists = suffix_exists, !.prefix_exists = prefix_exists,
                              !.text = text, !.timeout = timeout, !.returncode = returncode]

\* lines 121-161: the scanned file, the test file, the runner
EvalFind ==
    /\ ev.pc = "call"
    /\ LET test_file == FindTestFile(ev.stem, ev.suffix_exists, ev.prefix_exists)
           early == EvaluateEarly(ev.scanned_exists, ev.stem, test_file)
       IN IF early # NoTest
          THEN ev' = [ev EXCEPT !.pc = "ret", !.result = early]
          ELSE ev' = [ev EXCEPT !.pc = "run", !.test_file = test_file,
                                !.runner = SelectRunner(ev.text, test_file)]
    /\ UNCHANGED <<disk, disk0, fx, pc, bug_reports, final_results, out_file, apply_fixes, idx,
                   decisions, passed_fixed_files, do_push, vcs, fuse, repo, rc>>

\* lines 163-189: the test runs
EvalRun ==
    /\ ev.pc = "run"
    /\ ev' = [ev EXCEPT !.pc = "ret",
                        !.result = EvaluateRun(ev.stem, ev.test_file, ev.runner,
                                               ev.timeout, ev.returncode)]
    /\ UNCHANGED <<disk, disk0, fx, pc, bug_reports, final_results, out_file, apply_fixes, idx,
                   decisions, passed_fixed_files, do_push, vcs, fuse, repo, rc>>

NextEval == EvalFind \/ EvalRun

SpecEval == InitEval /\ [][NextEval]_vars

(***************************************************************************)
(* GitPushAgent                                                            *)
(***************************************************************************)
\* how many calls of the agent's methods are made on one repository
MaxCalls == 3

\* the paths of the working tree
KnownPaths == {"a", "b"}

\* _run: one git command on the repository g. ok is FALSE when git exits with a
\* non-zero status, on which _run raises CalledProcessError; out is its output
GitRun(g, cmd, arg) ==
    LET b == IF arg = {} THEN "" ELSE CHOOSE x \in arg : TRUE
        fail == [ok |-> FALSE, g |-> g, out |-> {}]
    IN CASE cmd = "symbolic-ref" ->
              IF g.origin_head # "" THEN [ok |-> TRUE, g |-> g, out |-> {g.origin_head}] ELSE fail
         [] cmd = "rev-parse" ->
              IF b \in g.branches THEN [ok |-> TRUE, g |-> g, out |-> {b}] ELSE fail
         [] cmd = "checkout" ->
              IF b \in g.branches \/ (b # "" /\ b = g.origin_head)
              THEN [ok |-> TRUE, g |-> [g EXCEPT !.head = b, !.branches = @ \cup {b}], out |-> {}]
              ELSE fail
         [] cmd = "checkout -b" ->
              IF b \notin g.branches
              THEN [ok |-> TRUE, g |-> [g EXCEPT !.head = b, !.branches = @ \cup {b}], out |-> {}]
              ELSE fail
         [] cmd = "add" ->
              IF arg \subseteq KnownPaths
              THEN [ok |-> TRUE, g |-> [g EXCEPT !.index = @ \cup (arg \cap g.changed)], out |-> {}]
              ELSE fail
         [] cmd = "diff --cached" -> [ok |-> TRUE, g |-> g, out |-> g.index]
         [] cmd = "commit" ->
              IF g.index # {}
              THEN [ok |-> TRUE, out |-> {},
                    g |-> [g EXCEPT !.commits = @ + 1, !.changed = @ \ g.index, !.index = {}]]
              ELSE fail
         [] cmd = "push" ->
              IF g.remote_up /\ b \in g.branches
              THEN [ok |-> TRUE, g |-> [g EXCEPT !.pushed = @ \cup {b}], out |-> {}]
              ELSE fail
         [] cmd = "rev-parse --is-inside-work-tree" -> [ok |-> TRUE, g |-> g, out |-> {}]
         [] cmd = "add -A" -> [ok |-> TRUE, g |-> [g EXCEPT !.index = @ \cup g.changed], out |-> {}]
         [] cmd = "status --porcelain" -> [ok |-> TRUE, g |-> g, out |-> g.changed \cup g.index]
         [] cmd = "rev-parse HEAD" -> [ok |-> TRUE, g |-> g, out |-> {}]

\* what a method of the agent leaves: it raised or returned, the repository, the
\* git commands it ran
Done(raised, g, cmds) == [raised |-> raised, g |-> g, cmds |-> cmds]

\* _detect_base_branch: origin/HEAD, else main, else master, else RuntimeError
detect_base_branch(g) ==
    LET ref == GitRun(g, "symbolic-ref", {})
    IN IF ref.ok
       THEN [ok |-> TRUE, name |-> CHOOSE x \in ref.out : TRUE, cmds |-> <<"symbolic-ref">>]
       ELSE IF GitRun(g, "rev-parse", {"main"}).ok
       THEN [ok |-> TRUE, name |-> "main", cmds |-> <<"symbolic-ref", "rev-parse">>]
       ELSE IF GitRun(g, "rev-parse", {"master"}).ok
       THEN [ok |-> TRUE, name |-> "master", cmds |-> <<"symbolic-ref", "rev-parse", "rev-parse">>]
       ELSE [ok |-> FALSE, name |-> "", cmds |-> <<"symbolic-ref", "rev-parse", "rev-parse">>]

\* a creation that does not fall back to the existing branch
CheckoutNewOnly(g, branch_name) ==
    LET new == GitRun(g, "checkout -b", {branch_name})
    IN Done(~new.ok, new.g, <<"checkout -b">>)
\* lines 63-66: the branch is created, or checked out when creating it fails
CheckoutOrCreate(g, branch_name) ==
    LET new == GitRun(g, "checkout -b", {branch_name})
        old == GitRun(g, "checkout", {branch_name})
    IN IF new.ok
       THEN Done(FALSE, new.g, <<"checkout -b">>)
       ELSE Done(~old.ok, old.g, <<"checkout -b", "checkout">>)

\* create_branch
create_branch(g, branch_name) ==
    LET base == detect_base_branch(g)
        co == GitRun(g, "checkout", {base.name})
        br == CheckoutOrCreate(co.g, branch_name)
    IN IF ~base.ok THEN Done(TRUE, g, base.cmds)
       ELSE IF ~co.ok THEN Done(TRUE, g, base.cmds \o <<"checkout">>)
       ELSE Done(br.raised, br.g, base.cmds \o <<"checkout">> \o br.cmds)

\* a staging that accepts an empty list and adds the whole working tree
stage_everything(g, files) ==
    LET add == GitRun(g, "add", files \cup g.changed)
    IN Done(~add.ok, add.g, <<"add">>)
\* stage_files
stage_files(g, files) ==
    IF files = {}
    THEN Done(TRUE, g, <<>>)
    ELSE LET add == GitRun(g, "add", files)
         IN Done(~add.ok, add.g, <<"add">>)

\* a check that always finds staged changes
HasStagedAlways(g) == TRUE
\* _has_staged_changes: git diff --cached --name-only prints a name
has_staged_changes(g) == GitRun(g, "diff --cached", {}).out # {}

\* commit
commit(g) ==
    IF ~has_staged_changes(g)
    THEN Done(FALSE, g, <<"diff --cached">>)
    ELSE LET c == GitRun(g, "commit", {})
         IN Done(~c.ok, c.g, <<"diff --cached", "commit">>)

\* push
push(g, branch_name) ==
    LET p == GitRun(g, "push", {branch_name})
    IN Done(~p.ok, p.g, <<"push">>)

(* QuixBugs/git_push_agent.py: the agent whose one method does the whole publish *)
\* GitPushResult: the status, the command whose failure it reports, the
\* repository, the git commands that ran
Outcome(status, failed, g, cmds) ==
    [raised |-> FALSE, g |-> g, cmds |-> cmds, status |-> status, failed |-> failed]

\* a publish that commits without looking at the status
CommitUnchecked(g, branch_name, cmds) ==
    LET com == GitRun(g, "commit", {})
        psh == GitRun(com.g, "push", {branch_name})
    IN IF ~com.ok THEN Outcome("FAIL", "commit", g, cmds \o <<"commit">>)
       ELSE IF ~psh.ok
       THEN Outcome("FAIL", "push", com.g, cmds \o <<"commit", "rev-parse HEAD", "push">>)
       ELSE Outcome("SUCCESS", "", psh.g, cmds \o <<"commit", "rev-parse HEAD", "push">>)
\* QuixBugs lines 60-73: SKIPPED when git status prints nothing; else commit, read
\* the sha, push
CommitAndPush(g, branch_name, cmds) ==
    LET status == GitRun(g, "status --porcelain", {})
        com == GitRun(status.g, "commit", {})
        sha == GitRun(com.g, "rev-parse HEAD", {})
        psh == GitRun(sha.g, "push", {branch_name})
        c1 == cmds \o <<"status --porcelain">>
    IN IF status.out = {} THEN Outcome("SKIPPED", "", status.g, c1)
       ELSE IF ~com.ok THEN Outcome("FAIL", "commit", status.g, c1 \o <<"commit">>)
       ELSE IF ~sha.ok THEN Outcome("FAIL", "rev-parse HEAD", com.g, c1 \o <<"commit", "rev-parse HEAD">>)
       ELSE IF ~psh.ok
       THEN Outcome("FAIL", "push", sha.g, c1 \o <<"commit", "rev-parse HEAD", "push">>)
       ELSE Outcome("SUCCESS", "", psh.g, c1 \o <<"commit", "rev-parse HEAD", "push">>)

\* QuixBugs push_branch, lines 41-76, with base_branch at its default "master":
\* every RuntimeError of _run is caught at line 75 and becomes FAIL; the branch
\* is created, or checked out when creating it fails, as in lines 52-55
push_branch(g, branch_name) ==
    LET inside == GitRun(g, "rev-parse --is-inside-work-tree", {})
        base == GitRun(inside.g, "checkout", {"master"})
        br == CheckoutOrCreate(base.g, branch_name)
        add == GitRun(br.g, "add -A", {})
        c0 == <<"rev-parse --is-inside-work-tree", "checkout">>
    IN IF ~inside.ok THEN Outcome("FAIL", "rev-parse --is-inside-work-tree", g, <<c0[1]>>)
       ELSE IF ~base.ok THEN Outcome("FAIL", "checkout", inside.g, c0)
       ELSE IF br.raised THEN Outcome("FAIL", "checkout", br.g, c0 \o br.cmds)
       ELSE IF ~add.ok THEN Outcome("FAIL", "add -A", br.g, c0 \o br.cmds \o <<"add -A">>)
       ELSE CommitAndPush(add.g, branch_name, c0 \o br.cmds \o <<"add -A">>)

\* run_bug_supervision.py main, lines 289-305, on a repository: create_branch,
\* stage_files, and when the push answer is yes commit and push; an exception of
\* any of them leaves main. Each method runs on the repository the one before
\* it left.
PublishOutcomes(g, files, toggle) ==
    UNION {UNION {UNION {
        {IF cb.raised THEN Done(TRUE, cb.g, cb.cmds)
         ELSE IF st.raised THEN Done(TRUE, st.g, cb.cmds \o st.cmds)
         ELSE IF ~toggle THEN Done(FALSE, st.g, cb.cmds \o st.cmds)
         ELSE IF cm.raised THEN Done(TRUE, cm.g, cb.cmds \o st.cmds \o cm.cmds)
         ELSE Done(ps.raised, ps.g, cb.cmds \o st.cmds \o cm.cmds \o ps.cmds) :
            ps \in {push(cm.g, "auto-fix")}} :
            cm \in {commit(st.g)}} :
            st \in {stage_files(cb.g, files)}} :
            cb \in {create_branch(g, "auto-fix")}}

Publish(g, files, toggle) == CHOOSE r \in PublishOutcomes(g, files, toggle) : TRUE

\* the calls made: create_branch of a new name and of the base branch's name,
\* stage_files of no path, of changed paths, of a path that does not exist,
\* commit, push; push_branch of the other agent, of an existing and of a new
\* branch name; the publish phase of main for one file, with the push answer yes
\* and no
GitCalls ==
    {[op |-> "create_branch", arg |-> {"feat"}], [op |-> "create_branch", arg |-> {"main"}],
     [op |-> "stage_files", arg |-> {}], [op |-> "stage_files", arg |-> {"a"}],
     [op |-> "stage_files", arg |-> {"a", "zz"}],
     [op |-> "commit", arg |-> {}], [op |-> "push", arg |-> {"feat"}],
     [op |-> "push_branch", arg |-> {"feat"}], [op |-> "push_branch", arg |-> {"fix"}],
     [op |-> "publish", arg |-> {"a"}], [op |-> "publish_staged", arg |-> {"a"}]}

\* one call of a method of the agent
AgentCall(g, call) ==
    CASE call.op = "create_branch" -> create_branch(g, CHOOSE x \in call.arg : TRUE)
      [] call.op = "stage_files" -> stage_files(g, call.arg)
      [] call.op = "commit" -> commit(g)
      [] call.op = "push" -> push(g, CHOOSE x \in call.arg : TRUE)
      [] call.op = "push_branch" -> push_branch(g, CHOOSE x \in call.arg : TRUE)
      [] call.op = "publish" -> Publish(g, call.arg, TRUE)
      [] call.op = "publish_staged" -> Publish(g, call.arg, FALSE)

\* the repositories the agent is used on: with or without origin/HEAD, with a
\* main or a master branch or neither, with changed and staged paths or none
GitRepos ==
    {[origin_head |-> oh, branches |-> bs, head |-> CHOOSE b \in bs : TRUE, changed |-> ch,
      index |-> ix, commits |-> 0, remote_up |-> up, pushed |-> {}] :
        oh \in {"", "dev"}, bs \in {{"main"}, {"master", "feat"}, {"topic"}},
        ch \in {{}, {"a", "b"}}, ix \in {{}, {"b"}}, up \in BOOLEAN}

InitGit ==
    /\ disk = EmptyDisk
    /\ disk0 = disk
    /\ fx = IdleFrame
    /\ MainAt("git")
    /\ fuse = NoFuse
    /\ ev = NoEval
    /\ \E g \in GitRepos : repo = [g |-> g, log |-> <<>>]
    /\ rc = NoRecover

\* a method is called and returns or raises; the log keeps the call, the
\* repository before and after it, and the commands it ran
GitCall ==
    /\ pc = "git"
    /\ Len(repo.log) < MaxCalls
    /\ \E call \in GitCalls :
          LET r == AgentCall(repo.g, call)
          IN repo' = [g |-> r.g,
                      log |-> Append(repo.log, [op |-> call.op, arg |-> call.arg,
                                                raised |-> r.raised, cmds |-> r.cmds,
                                                status |-> IF call.op = "push_branch"
                                                           THEN r.status ELSE "",
                                                failed |-> IF call.op = "push_branch"
                                                           THEN r.failed ELSE "",
                                                pre |-> repo.g, post |-> r.g])]
    /\ UNCHANGED <<disk, disk0, fx, pc, bug_reports, final_results, out_file, apply_fixes, idx,
                   decisions, passed_fixed_files, do_push, vcs, fuse, ev, rc>>

NextGit == GitCall

SpecGit == InitGit /\ [][NextGit]_vars

(***************************************************************************)
(* run_bug_supervision: helpers                                            *)
(***************************************************************************)
\* _normalize_bug_report: the stored report, or the record recovered from its raw
\* text; the result is not a record when the recovered value is not one and the
\* stored report has no excerpt
NormalizeBugReport(bug_report) ==
    IF PyBool(Get(bug_report, "error", VNone)) /\ PyBool(Get(bug_report, "raw_response_text", VNone))
    THEN LET j == JsonLoads(CleanJson(bug_report["raw_response_text"].s))
             excerpt == Get(bug_report, "code_excerpt", VNone)
         IN IF ~j.ok THEN DictOf(bug_report)
            ELSE IF j.isdict
            THEN IF PyBool(excerpt) /\ ~PyBool(Get(j.d, "code_excerpt", VNone))
                 THEN DictOf([j.d EXCEPT !["code_excerpt"] = excerpt])
                 ELSE DictOf(j.d)
            ELSE IF PyBool(excerpt) THEN DictOf(bug_report) ELSE NotDict(j.v)
    ELSE DictOf(bug_report)

\* _to_abs_path
ToAbsPath(scanned_file, dir) == IF IsAbsolute(scanned_file) THEN scanned_file ELSE dir \o scanned_file

\* _repo_relpath: the path below the repository root
RepoRelPath(abs_path) == SubSeq(abs_path, Len(ROOT_DIR) + 1, Len(abs_path))

\* line 216: entry.get("supervisor_review") or {}
ReviewOrEmpty(review) == IF ~review.isdict /\ ~PyBool(review.v) THEN DictOf(EmptyDict) ELSE review

\* a majority vote of the three signals
BugExistsMajority(confirmed_bug, corrected_has_bug, detector_has_bug) ==
    \/ confirmed_bug /\ corrected_has_bug
    \/ confirmed_bug /\ detector_has_bug
    \/ corrected_has_bug /\ detector_has_bug
\* line 231
BugExists(confirmed_bug, corrected_has_bug, detector_has_bug) ==
    confirmed_bug \/ corrected_has_bug \/ detector_has_bug

\* lines 228-231: the three signals and the verdict
Decision(bug_report, review) ==
    LET confirmed_bug == IsDict(review) /\ AsBool(Get(review.d, "confirmed_bug", VBool(FALSE)))
        corrected_has_bug == IsDict(review) /\ AsBool(Get(review.d, "corrected_has_bug", VBool(FALSE)))
        detector_has_bug == AsBool(Get(bug_report, "has_bug", VBool(FALSE)))
    IN [confirmed_bug |-> confirmed_bug, corrected_has_bug |-> corrected_has_bug,
        detector_has_bug |-> detector_has_bug,
        bug_exists |-> BugExists(confirmed_bug, corrected_has_bug, detector_has_bug)]

\* a decision that ignores the apply-fixes gate
DoFixUngated(gate, bug_exists) == bug_exists
\* line 234: do_fix = apply_fixes and bug_exists
DoFix(gate, bug_exists) == gate /\ bug_exists

\* a fix counted as applied whenever it was not skipped
FixAppliedAny(status) == status # "skipped"
\* line 256: fix_applied
FixApplied(status) == status \in {"applied", "fixed", "success", "patched", "ok"}

\* a publish rule that ignores the test result
PublishableUntested(fix_applied, passed) == fix_applied
\* line 258: if fix_applied and test_res.passed
Publishable(fix_applied, passed) == fix_applied /\ passed

NoDecision == [scanned_file_abs |-> <<>>, confirmed_bug |-> FALSE, corrected_has_bug |-> FALSE,
               detector_has_bug |-> FALSE, bug_exists |-> FALSE, do_fix |-> FALSE,
               invoked |-> FALSE, called_service |-> FALSE]

Entry(report, review) == [bug_report |-> report, supervisor_review |-> review,
                          fix_result |-> NoResult, unit_test_evaluation |-> NoTest]

Range(seq) == {seq[i] : i \in 1..Len(seq)}

(***************************************************************************)
(* run_bug_supervision: main                                               *)
(***************************************************************************)
\* the target tree when the run starts: each scanned file has its own body
MainDisk ==
    [p \in DiskPaths |->
        IF p \in Scanned
        THEN File(IF p = TreeFiles[1] THEN BodyA ELSE BodyA \o <<NL>>)
        ELSE NoFile]

Init ==
    /\ disk = MainDisk
    /\ disk0 = disk
    /\ fx = IdleFrame
    /\ MainAt("scan")
    /\ fuse = NoFuse
    /\ ev = NoEval
    /\ repo = NoRepo
    /\ rc = NoRecover

\* an exception leaves main
Crash == pc' = "crashed"

\* scan_repo, lines 119-129: one file is analysed; analyze_file reads it at line 43,
\* outside any try, so a file that cannot be read ends the run
ScanFile ==
    /\ pc = "scan"
    /\ LET p == TreeFiles[idx]
       IN \E readable \in BOOLEAN, reply \in DetectorReplies(p) :
             LET r == AnalyzeFile(p, Decode(disk[p].data), reply)
             IN IF ~readable \/ r.raises
                THEN Crash /\ UNCHANGED <<bug_reports, idx>>
                ELSE /\ bug_reports' = Append(bug_reports, r.report)
                     /\ idx' = IF idx = MaxFiles THEN 1 ELSE idx + 1
                     /\ pc' = IF idx = MaxFiles THEN "review" ELSE "scan"
    /\ UNCHANGED <<disk, disk0, fx, final_results, out_file, apply_fixes, decisions,
                   passed_fixed_files, do_push, vcs, fuse, ev, repo, rc>>

\* run_bug_detection_with_supervision, lines 141-152: one report is reviewed
ReviewEntry ==
    /\ pc = "review"
    /\ \E reply \in ReviewerReplies :
          final_results' = Append(final_results,
                                  Entry(bug_reports[idx], ReviewReport(bug_reports[idx], reply)))
    /\ decisions' = Append(decisions, NoDecision)
    /\ idx' = IF idx = Len(bug_reports) THEN 1 ELSE idx + 1
    /\ pc' = IF idx = Len(bug_reports) THEN "write_report" ELSE "review"
    /\ UNCHANGED <<disk, disk0, fx, bug_reports, out_file, apply_fixes,
                   passed_fixed_files, do_push, vcs, fuse, ev, repo, rc>>

\* lines 177-184: the detection report is written, the user is asked
WriteDetectionReport ==
    /\ pc = "write_report"
    /\ out_file' = final_results
    /\ \E ans \in BOOLEAN : apply_fixes' = ans
    /\ pc' = "entry"
    /\ UNCHANGED <<disk, disk0, fx, bug_reports, final_results, idx, decisions,
                   passed_fixed_files, do_push, vcs, fuse, ev, repo, rc>>

SkippedByMain(reason) == Result("skipped", reason, <<>>)

\* lines 247-250: the reason recorded when fix_bug is not called
SkipReason(gate, bug_exists) == "User selected N or no bug detected by supervisor/detector"

\* lines 214-250: the decision for one entry; the fix agent is called, or the
\* fix is recorded as skipped
BeginEntry ==
    /\ pc = "entry"
    /\ idx <= Len(final_results)
    /\ LET entry == final_results[idx]
           nb == NormalizeBugReport(entry.bug_report)
           review == ReviewOrEmpty(entry.supervisor_review)
           file == Get(nb.d, "file", VNone)
           scanned_file == IF PyBool(file) THEN file ELSE Get(nb.d, "file_path", VNone)
           scanned_file_abs == ToAbsPath(scanned_file.s, target_dir)
           dec == Decision(nb.d, review)
           do_fix == DoFix(apply_fixes, dec.bug_exists)
       IN IF ~nb.isdict
          THEN Crash /\ UNCHANGED <<fx, final_results, idx, decisions>>
          ELSE IF ~PyBool(scanned_file)
          THEN /\ final_results' = [final_results EXCEPT
                      ![idx].fix_result = SkippedByMain("bug_report file path missing"),
                      ![idx].unit_test_evaluation = SkippedTest]
               /\ idx' = idx + 1
               /\ UNCHANGED <<pc, fx, decisions>>
          ELSE /\ decisions' = [decisions EXCEPT ![idx] =
                      [scanned_file_abs |-> scanned_file_abs,
                       confirmed_bug |-> dec.confirmed_bug,
                       corrected_has_bug |-> dec.corrected_has_bug,
                       detector_has_bug |-> dec.detector_has_bug,
                       bug_exists |-> dec.bug_exists,
                       do_fix |-> do_fix, invoked |-> do_fix, called_service |-> FALSE]]
               /\ idx' = idx
               /\ IF do_fix
                  THEN /\ fx' = CallFrame("main", [nb.d EXCEPT !["file"] = VStr(scanned_file_abs)], FALSE)
                       /\ pc' = "fixing"
                       /\ UNCHANGED final_results
                  ELSE /\ final_results' = [final_results EXCEPT ![idx].fix_result =
                              SkippedByMain(SkipReason(apply_fixes, dec.bug_exists))]
                       /\ pc' = "test"
                       /\ UNCHANGED fx
    /\ UNCHANGED <<disk, disk0, bug_reports, out_file, apply_fixes,
                   passed_fixed_files, do_push, vcs, fuse, ev, repo, rc>>

\* line 244: fix_bug returns, its result is the entry's fix result
FixReturned ==
    /\ pc = "fixing"
    /\ fx.pc = "ret"
    /\ final_results' = [final_results EXCEPT ![idx].fix_result = fx.result]
    /\ decisions' = [decisions EXCEPT ![idx].called_service = fx.called_service]
    /\ fx' = IdleFrame
    /\ pc' = "test"
    /\ UNCHANGED <<disk, disk0, bug_reports, out_file, apply_fixes, idx,
                   passed_fixed_files, do_push, vcs, fuse, ev, repo, rc>>

\* line 244: fix_bug raises, and nothing in main catches it
FixRaised ==
    /\ pc = "fixing"
    /\ fx.pc = "raised"
    /\ Crash
    /\ UNCHANGED <<disk, disk0, fx, bug_reports, final_results, out_file, apply_fixes, idx,
                   decisions, passed_fixed_files, do_push, vcs, fuse, ev, repo, rc>>

\* lines 252-274: the test of the entry's file runs, the entry is completed
RunTest ==
    /\ pc = "test"
    /\ LET scanned_file_abs == decisions[idx].scanned_file_abs
       IN \E outcome \in OutcomesFor(scanned_file_abs) :
             LET test_res == Evaluate(scanned_file_abs, outcome)
                 fix_applied == FixApplied(final_results[idx].fix_result.status)
             IN /\ passed_fixed_files' =
                       IF Publishable(fix_applied, test_res.passed)
                       THEN Append(passed_fixed_files, RepoRelPath(scanned_file_abs))
                       ELSE passed_fixed_files
                /\ final_results' = [final_results EXCEPT ![idx].unit_test_evaluation = test_res]
    /\ idx' = idx + 1
    /\ pc' = "entry"
    /\ UNCHANGED <<disk, disk0, fx, bug_reports, out_file, apply_fixes,
                   decisions, do_push, vcs, fuse, ev, repo, rc>>

\* line 279: fixed_files
FixedFiles == Range(passed_fixed_files)

\* lines 279-290 and 308-309: the files to publish; the user is asked when there are some
BeginPublish ==
    /\ pc = "entry"
    /\ idx > Len(final_results)
    /\ IF FixedFiles # {}
       THEN /\ \E ans \in BOOLEAN : do_push' = ans
            /\ pc' = "create_branch"
       ELSE /\ pc' = "write_final"
            /\ UNCHANGED do_push
    /\ UNCHANGED <<disk, disk0, fx, bug_reports, final_results, out_file, apply_fixes, idx,
                   decisions, passed_fixed_files, vcs, fuse, ev, repo, rc>>

Git(op, files) == [op |-> op, files |-> files]

\* a git command of the publish phase: it runs, or it fails and
\* CalledProcessError leaves main
GitStep(at, op, files, next) ==
    /\ pc = at
    /\ \E ok \in BOOLEAN :
          IF ok
          THEN vcs' = Append(vcs, Git(op, files)) /\ pc' = next
          ELSE Crash /\ UNCHANGED vcs
    /\ UNCHANGED <<disk, disk0, fx, bug_reports, final_results, out_file, apply_fixes, idx,
                   decisions, passed_fixed_files, do_push, fuse, ev, repo, rc>>

\* line 293
CreateBranch == GitStep("create_branch", "create_branch", {}, "stage")

\* staging of every scanned file
StageAll(files) == files \cup {RepoRelPath(p) : p \in Scanned}
\* the paths handed to git add
StagePaths(files) == files

\* a publish phase that commits and pushes whatever the answer
PushAlways(toggle) == "commit"
\* line 298: if do_push, commit and push follow the staging
AfterStaging(toggle) == IF toggle THEN "commit" ELSE "write_final"

\* lines 296-298
StageFiles == GitStep("stage", "add", StagePaths(FixedFiles), AfterStaging(do_push))

\* line 301
Commit == GitStep("commit", "commit", {}, "push")

\* line 304
Push == GitStep("push", "push", {}, "write_final")

\* lines 312 and 321: the report is written again
WriteFinalReport ==
    /\ pc = "write_final"
    /\ out_file' = final_results
    /\ pc' = "done"
    /\ UNCHANGED <<disk, disk0, fx, bug_reports, final_results, apply_fixes, idx,
                   decisions, passed_fixed_files, do_push, vcs, fuse, ev, repo, rc>>

Next ==
    \/ ScanFile
    \/ ReviewEntry
    \/ WriteDetectionReport
    \/ BeginEntry
    \/ FixEntry
    \/ FixCallService
    \/ FixDecide
    \/ FixBackupOpen
    \/ FixBackupCopy
    \/ FixWriteOpen
    \/ FixWriteData
    \/ FixVerify
    \/ FixRollbackOpen
    \/ FixRollbackCopy
    \/ FixReturned
    \/ FixRaised
    \/ RunTest
    \/ BeginPublish
    \/ CreateBranch
    \/ StageFiles
    \/ Commit
    \/ Push
    \/ WriteFinalReport

Spec == Init /\ [][Next]_vars

(***************************************************************************)
(* The decision of lines 228-231 taken alone, on any three raw signals     *)
(***************************************************************************)
InitFuse ==
    /\ disk = EmptyDisk
    /\ disk0 = disk
    /\ fx = IdleFrame
    /\ MainAt("fuse")
    /\ \E d \in RawSignals, c \in RawSignals, k \in RawSignals, isdict \in BOOLEAN :
          fuse = [NoFuse EXCEPT !.detector = d, !.review_is_dict = isdict,
                                !.confirmed = c, !.corrected = k]
    /\ ev = NoEval
    /\ repo = NoRepo
    /\ rc = NoRecover

\* the bug report and the review that carry the raw signals
FuseReport == [EmptyDict EXCEPT !["has_bug"] = fuse.detector]
FuseReview ==
    IF fuse.review_is_dict
    THEN DictOf([EmptyDict EXCEPT !["confirmed_bug"] = fuse.confirmed,
                                  !["corrected_has_bug"] = fuse.corrected])
    ELSE NotDict(VList(1))

\* fix_from_report.py line 86: the report-driven fixer goes on only when has_bug
\* is the native true
ReportGate(bug_report) == Get(bug_report, "has_bug", VNone) = VBool(TRUE)

\* the fused decision of main, and what the other readers of the same has_bug
\* make of it: fix_bug's check, review_report's fallback, the report-driven gate
FuseDecide ==
    /\ pc = "fuse"
    /\ ~fuse.done
    /\ LET dec == Decision(FuseReport, ReviewOrEmpty(FuseReview))
       IN /\ fuse' = [fuse EXCEPT !.done = TRUE, !.bug_exists = dec.bug_exists,
                                  !.fix_agent = HasBugGate(FuseReport),
                                  !.fallback = FallbackReview(FuseReport).d["corrected_has_bug"].b,
                                  !.report_gate = ReportGate(FuseReport)]
          /\ decisions' = <<[NoDecision EXCEPT !.confirmed_bug = dec.confirmed_bug,
                                               !.corrected_has_bug = dec.corrected_has_bug,
                                               !.detector_has_bug = dec.detector_has_bug,
                                               !.bug_exists = dec.bug_exists]>>
    /\ UNCHANGED <<disk, disk0, fx, pc, bug_reports, final_results, out_file, apply_fixes, idx,
                   passed_fixed_files, do_push, vcs, ev, repo, rc>>

NextFuse == FuseDecide

SpecFuse == InitFuse /\ [][NextFuse]_vars

(***************************************************************************)
(* One service text through the recovery of every stage                    *)
(***************************************************************************)
\* fix_from_report.py extract_json_from_text: nothing for an empty text, for a
\* text without a "{" before a "}", and for a slice json.loads rejects
extract_json_from_text(text) ==
    LET none == [ok |-> FALSE, isdict |-> FALSE, d |-> EmptyDict, v |-> VNone]
        t == StripCodeFences(text)
        start == Find(t, "LB")
        end == RFind(t, "RB")
    IN IF text = <<>> THEN none
       ELSE IF start = 0 \/ end = 0 \/ end <= start THEN none
       ELSE JsonLoads(SubSeq(t, start, end))

\* fix_from_report.py normalize_bug_report: the stored report, or the record
\* recovered from its raw text, with the stored excerpt when it has none
normalize_bug_report(bug_report) ==
    IF PyBool(Get(bug_report, "error", VNone)) /\ PyBool(Get(bug_report, "raw_response_text", VNone))
    THEN LET j == extract_json_from_text(bug_report["raw_response_text"].s)
             excerpt == Get(bug_report, "code_excerpt", VNone)
         IN IF j.ok /\ j.isdict
            THEN IF PyBool(excerpt) /\ ~PyBool(Get(j.d, "code_excerpt", VNone))
                 THEN [j.d EXCEPT !["code_excerpt"] = excerpt]
                 ELSE j.d
            ELSE bug_report
    ELSE bug_report

\* what a service puts in its text: a record; a record with an excerpt; an empty
\* record; a list; words; nothing
RecoverPayloads ==
    {Obj(<<HasBug("true")>>),
     Obj(<<HasBug("true"), Pair("code_excerpt", <<StrTok(BodyB)>>)>>),
     Obj(<<>>),
     <<Lit("[1]")>>,
     <<Word("sorry")>>,
     <<>>}

\* and around it: nothing; blank lines; fences; fences and a closing remark;
\* remarks before and after; a remark that has a brace
Wraps == {"bare", "blank", "fenced", "fenced_prose", "prose", "brace_prose"}

Wrap(w, payload) ==
    CASE w = "bare" -> payload
      [] w = "blank" -> <<NL, WS>> \o payload \o <<NL>>
      [] w = "fenced" -> <<FENCE, Word("json"), NL>> \o payload \o <<NL, FENCE>>
      [] w = "fenced_prose" ->
            <<FENCE, Word("json"), NL>> \o payload \o <<NL, FENCE, NL, Word("done")>>
      [] w = "prose" -> <<Word("here"), WS>> \o payload \o <<WS, Word("done")>>
      [] w = "brace_prose" -> payload \o <<WS, Word("see"), RB>>

InitRecover ==
    /\ disk = EmptyDisk
    /\ disk0 = disk
    /\ fx = IdleFrame
    /\ MainAt("recover")
    /\ fuse = NoFuse
    /\ ev = NoEval
    /\ repo = NoRepo
    /\ \E payload \in RecoverPayloads, w \in Wraps, code \in {<<>>, BodyA} :
          rc = [NoRecover EXCEPT !.pc = "detect", !.payload = payload, !.wrap = w,
                                 !.text = Wrap(w, payload), !.code = code]

\* bug_detection_agent.py line 116 and analyze_file as a whole: the detector
\* decodes the text as it is and stores its report
RecoverDetect ==
    /\ pc = "recover"
    /\ rc.pc = "detect"
    /\ rc' = [rc EXCEPT !.pc = "stages",
                        !.detector = JsonLoads(rc.text),
                        !.stored = AnalyzeFile(TreeFiles[2], rc.code, Reply(rc.text))]
    /\ UNCHANGED <<disk, disk0, fx, pc, bug_reports, final_results, out_file, apply_fixes, idx,
                   decisions, passed_fixed_files, do_push, vcs, fuse, ev, repo>>

\* supervisor_agent.py 81-82, bug_fix_agent.py _clean_json and json.loads,
\* fix_from_report.py extract_json_from_text, run_bug_supervision.py 49-51: what
\* each later stage decodes from the same text; and the report each second chance
\* returns for the stored one
RecoverStages ==
    /\ pc = "recover"
    /\ rc.pc = "stages"
    /\ rc' = [rc EXCEPT !.pc = "done",
                        !.reviewer = JsonLoads(CleanJson(rc.text)),
                        !.fixer = JsonLoads(CleanJson(rc.text)),
                        !.report_fixer = extract_json_from_text(rc.text),
                        !.second_chance = JsonLoads(CleanJson(rc.text)),
                        !.normalized = IF rc.stored.raises THEN rc.normalized
                                       ELSE NormalizeBugReport(rc.stored.report),
                        !.report_normalized = IF rc.stored.raises THEN rc.report_normalized
                                              ELSE normalize_bug_report(rc.stored.report)]
    /\ UNCHANGED <<disk, disk0, fx, pc, bug_reports, final_results, out_file, apply_fixes, idx,
                   decisions, passed_fixed_files, do_push, vcs, fuse, ev, repo>>

NextRecover == RecoverDetect \/ RecoverStages

SpecRecover == InitRecover /\ [][NextRecover]_vars

(***************************************************************************)
(* Properties                                                              *)
(***************************************************************************)
\* the entries whose scanned file is published as the path f
EntriesOf(f) == {e \in 1..Len(final_results) : RepoRelPath(TreeFiles[e]) = f}

\* the paths handed to git add
Staged == UNION {vcs[i].files : i \in {j \in 1..Len(vcs) : vcs[j].op = "add"}}

\* C1: a path is handed to staging only if the fix result of that file is
\* patched and its test passed: no scanned file whose fix result is skipped,
\* no_change, write_failed, no_fixed_code or error, or whose test did not pass,
\* is in the staged set.
C1_StagedOnlyPatchedAndPassed ==
    \A f \in Staged :
        \A e \in EntriesOf(f) :
            /\ final_results[e].fix_result.status = "patched"
            /\ final_results[e].unit_test_evaluation.passed

\* fix_bug has ended: it returned or it raised
FixEnded == fx.pc \in {"ret", "raised"}

\* C2: whenever the content of a file differs from its content at the start of
\* the call, at every step of the call, the backup of that file exists and holds
\* the original content.
C2_BackupBeforeWrite ==
    \A p \in SourcePaths :
        disk[p] # disk0[p] =>
            /\ disk0[p].exists
            /\ disk[BackupPath(p)] = File(disk0[p].data)

\* C2's case: the write was interrupted after the target was emptied
C2_Witness ==
    /\ fx.pc = "write_data"
    /\ disk[fx.target] # disk0[fx.target]
    /\ disk0[fx.target].data # <<>>

\* C3: when the write of the proposed body does not take effect (the write is
\* discarded, or the target cannot be opened for writing), fix_bug returns
\* write_failed and the file is as it was.
C3_WriteFailedReturned ==
    (FixEnded /\ fx.effect \in {"none", "raise"}) =>
        /\ fx.pc = "ret"
        /\ fx.result.status = "write_failed"
        /\ disk[fx.target] = disk0[fx.target]

\* the fingerprint of the proposed body is that of the original text
SameFingerprint ==
    /\ fx.proposed
    /\ fx.plan.isdict
    /\ fx.plan.d["fixed_code"].t = "str"
    /\ Sha256(fx.fixed_code) = Sha256(fx.original_code)

\* C4 as stated: if the fingerprint of the proposed body equals the fingerprint
\* of the original body, fix_bug returns no_change and the disk is as it was.
C4_AsStated ==
    (FixEnded /\ SameFingerprint) => (fx.result.status = "no_change" /\ disk = disk0)

\* C4: if the proposed body is not blank and its fingerprint equals the
\* fingerprint of the original body, fix_bug returns no_change, writes nothing
\* and makes no backup: the disk is as it was.
C4_NoChange ==
    (SameFingerprint /\ Strip(fx.fixed_code) # <<>>) =>
        /\ fx.pc = "ret"
        /\ fx.result.status = "no_change"
        /\ disk = disk0

\* C4's case: a file whose bytes are not its text, and a proposed body equal to
\* the text
C4_Witness ==
    /\ fx.pc = "ret"
    /\ fx.result.status = "no_change"
    /\ disk[fx.target].data # fx.original_code
    /\ fx.fixed_code = fx.original_code

\* C5: in every patched result before_hash differs from after_hash, and
\* after_hash is the fingerprint of the text on disk when fix_bug returns.
C5_PatchedVerified ==
    (fx.pc = "ret" /\ fx.result.status = "patched") =>
        /\ fx.result.before_hash # fx.result.after_hash
        /\ fx.result.before_hash = Sha256(Decode(disk0[fx.target].data))
        /\ fx.result.after_hash = Sha256(Decode(disk[fx.target].data))

\* C5's case: a patched result after a short write
C5_Witness ==
    /\ fx.pc = "ret"
    /\ fx.result.status = "patched"
    /\ fx.effect = "partial"

\* the fix service failed, or its reply is no record, or the body of the record
\* is empty after the fences are stripped
UncertainReply ==
    /\ fx.called_service
    /\ \/ fx.reply.raised
       \/ LET plan == JsonLoads(CleanJson(fx.reply.text))
          IN \/ ~plan.ok
             \/ ~plan.isdict
             \/ /\ Get(plan.d, "fixed_code", VStr(<<>>)).t = "str"
                /\ Strip(StripCodeFences(Get(plan.d, "fixed_code", VStr(<<>>)).s)) = <<>>

\* C6: whenever the fix service fails, its reply cannot be recovered as a
\* record, or the recovered body is empty, fix_bug returns an error outcome and
\* no file is created or modified.
C6_ErrorOutcome ==
    (FixEnded /\ UncertainReply) =>
        /\ fx.pc = "ret"
        /\ fx.result.status \in {"error", "no_fixed_code"}
        /\ disk = disk0

\* C7: with dry_run, fix_bug never writes the target and never makes a backup:
\* the disk is as it was at every step, whatever the fix service answers.
C7_DryRunFrame == fx.dry_run => disk = disk0

\* C7's case: a dry run that got as far as a new body
C7_Witness ==
    /\ fx.dry_run
    /\ fx.pc = "ret"
    /\ fx.result.status = "dry_run"
    /\ fx.result.before_hash # fx.result.after_hash

\* C8: the verdict is the OR of the three normalised signals: false when the
\* three are false, true when any one is true; a review that is not a record
\* counts as two false signals.
C8_FusionIsOr ==
    fuse.done =>
        LET d == decisions[1]
        IN /\ (~d.detector_has_bug /\ ~d.confirmed_bug /\ ~d.corrected_has_bug) => ~fuse.bug_exists
           /\ d.detector_has_bug => fuse.bug_exists
           /\ d.confirmed_bug => fuse.bug_exists
           /\ d.corrected_has_bug => fuse.bug_exists
           /\ d.detector_has_bug = AsBool(Get(FuseReport, "has_bug", VBool(FALSE)))
           /\ ~fuse.review_is_dict => (~d.confirmed_bug /\ ~d.corrected_has_bug)
           /\ fuse.review_is_dict =>
                 /\ d.confirmed_bug = AsBool(fuse.confirmed)
                 /\ d.corrected_has_bug = AsBool(fuse.corrected)

\* C8's case: the detector and one reviewer signal say no, in three different
\* types, and the other reviewer signal alone says yes, as a string
C8_Witness ==
    /\ fuse.done
    /\ fuse.bug_exists
    /\ fuse.review_is_dict
    /\ fuse.detector = VNum(0)
    /\ fuse.confirmed = VStr(Chars(<<"n", "o">>))
    /\ fuse.corrected = VStr(<<WS>> \o Chars(<<"Y", "e", "s">>) \o <<NL>>)

\* the entries the loop has decided on
Decided == {e \in 1..Len(decisions) : decisions[e].scanned_file_abs # <<>>}

\* C9: the fix agent is invoked for an entry, and the fix service called, only
\* if the apply-fixes gate is enabled and the verdict for that entry is true;
\* with the gate disabled no file is modified.
C9_FixGated ==
    /\ \A e \in 1..Len(decisions) :
          (decisions[e].invoked \/ decisions[e].called_service) =>
              (apply_fixes /\ decisions[e].bug_exists)
    /\ fx.pc # "idle" => (apply_fixes /\ decisions[idx].bug_exists)
    /\ ~apply_fixes => disk = disk0

\* C9's case: the gate is enabled, one entry was patched and another was decided
\* not to have a bug and was left alone
C9_Witness ==
    /\ apply_fixes
    /\ disk # disk0
    /\ \E e \in Decided : decisions[e].invoked /\ final_results[e].fix_result.status = "patched"
    /\ \E e \in Decided : ~decisions[e].bug_exists /\ final_results[e].fix_result.status = "skipped"

\* C10: with the gate enabled, one affirmative signal is enough: the fix service
\* is consulted and the fix result is not skipped, also when the detector's own
\* has_bug is false.
C10_AnySignalSuffices ==
    \A e \in Decided :
        ( /\ apply_fixes
          /\ final_results[e].fix_result.status # "none"
          /\ \/ decisions[e].detector_has_bug
             \/ decisions[e].confirmed_bug
             \/ decisions[e].corrected_has_bug )
        => /\ final_results[e].fix_result.status # "skipped"
           /\ decisions[e].called_service

\* every scanned file has a ledger entry with a test evaluation in it: the loop
\* of lines 214-274 is over
PerFileDone ==
    /\ Len(final_results) = MaxFiles
    /\ \A e \in 1..MaxFiles : final_results[e].unit_test_evaluation.kind # "none"

\* C11: a test evaluation is attached only after the fix result, and when the
\* run completes every ledger entry has a fix result and a test evaluation that
\* the test runner produced.
C11_EveryEntryEvaluated ==
    /\ \A e \in 1..Len(final_results) :
          final_results[e].unit_test_evaluation.kind # "none" =>
              final_results[e].fix_result.status # "none"
    /\ pc = "done" =>
          \A e \in 1..Len(final_results) :
              /\ final_results[e].fix_result.status # "none"
              /\ final_results[e].unit_test_evaluation.kind = "evaluated"

\* C12: no failure of reading, diagnosing, reviewing, fixing or testing a file
\* ends the run: the run ends abnormally only once every file has been processed.
C12_NoAbort == pc = "crashed" => PerFileDone

\* C13: after a failure of a version-control command, the ledger on disk holds
\* the fix result and the test evaluation of every scanned file.
C13_LedgerSurvivesPublishFailure ==
    (pc = "crashed" /\ PerFileDone) => out_file = final_results

\* the detector's call of the diagnosis service raised for the entry's file:
\* the report carries an error and no reply text
DetectorFailed(e) ==
    /\ PyBool(Get(final_results[e].bug_report, "error", VNone))
    /\ Get(final_results[e].bug_report, "raw_response_text", Absent) = Absent

\* C14: when the detector's call raised for a file, the file's entry ends with
\* the fix result ApiError and a computed test evaluation.
C14_DetectorErrorIsApiError ==
    pc = "done" =>
        \A e \in 1..Len(final_results) :
            DetectorFailed(e) =>
                /\ final_results[e].fix_result.status = "error"
                /\ final_results[e].unit_test_evaluation.kind = "evaluated"

\* the test file was found and its runner chosen
EvalRan == ev.pc \in {"run", "ret"} /\ ev.test_file # <<>>

\* C15: a test file with a function test_addition and no relative import is run
\* by pytest, one with a relative import and no import of pytest nor test
\* function by the module runner, one with neither by the file runner.
C15_RunnerPriority ==
    EvalRan =>
        /\ LooksLikePytestByContent(ev.text, <<>>) => ev.runner = "pytest"
        /\ (~LooksLikePytestByContent(ev.text, <<>>) /\ LooksLikeRelativeImportTest(ev.text))
              => ev.runner = "python-module"
        /\ (~LooksLikePytestByContent(ev.text, <<>>) /\ ~LooksLikeRelativeImportTest(ev.text))
              => ev.runner = "python-file"

\* C16: <stem>_test.py is used when it exists, else test_<stem>.py when it
\* exists; when neither exists the result has runner none, passed false, both
\* candidates in its note, and an exit code that no test that ran and failed has.
C16_DiscoveryAndNotFoundCode ==
    (ev.pc = "ret" /\ ev.scanned_exists) =>
        /\ ev.suffix_exists => ev.result.test_file = CandidateTestPaths(ev.stem)[1]
        /\ (~ev.suffix_exists /\ ev.prefix_exists) =>
              ev.result.test_file = CandidateTestPaths(ev.stem)[2]
        /\ (~ev.suffix_exists /\ ~ev.prefix_exists) =>
              /\ ev.result.runner = "none"
              /\ ~ev.result.passed
              /\ ev.result.tried = CandidateTestPaths(ev.stem)
        /\ (ev.test_file # <<>> /\ ~ev.result.passed) =>
              ev.result.exit_code # EvaluateEarly(TRUE, ev.stem, <<>>).exit_code

\* C17: passed is true exactly when the test ran to its end with exit code 0; a
\* timeout gives passed false and exit code 124; a missing scanned file or test
\* file gives passed false and runner none; passed implies exit code 0 and a runner.
C17_PassedIffExitZero ==
    ev.pc = "ret" =>
        /\ ev.result.passed <=> (ev.test_file # <<>> /\ ~ev.timeout /\ ev.returncode = 0)
        /\ (ev.test_file # <<>> /\ ev.timeout) => (~ev.result.passed /\ ev.result.exit_code = 124)
        /\ ev.test_file = <<>> => (~ev.result.passed /\ ev.result.runner = "none")
        /\ ev.result.passed => (ev.result.exit_code = 0 /\ ev.result.runner # "none")

\* C17's case: a test that ran to its end with a non-zero exit code
C17_Witness ==
    /\ ev.pc = "ret"
    /\ ev.test_file # <<>>
    /\ ~ev.timeout
    /\ ev.returncode = 1
    /\ ~ev.result.passed
    /\ ev.result.exit_code = 1

\* the calls of the method op in the log
CallsOf(op) == {i \in 1..Len(repo.log) : repo.log[i].op = op}

\* C18: commit with nothing staged runs no commit command, does not raise and
\* leaves the repository as it was; with something staged it runs one commit.
C18_CommitNoOpWhenNothingStaged ==
    \A i \in CallsOf("commit") :
        LET c == repo.log[i]
            commits == {k \in 1..Len(c.cmds) : c.cmds[k] = "commit"}
        IN /\ c.pre.index = {} => (~c.raised /\ commits = {} /\ c.post = c.pre)
           /\ c.pre.index # {} =>
                 /\ Cardinality(commits) = 1
                 /\ ~c.raised
                 /\ c.post.commits = c.pre.commits + 1
                 /\ c.post.index = {}

\* C18's case: a commit with nothing staged after a commit of a staged path
C18_Witness ==
    \E i \in CallsOf("commit"), j \in CallsOf("commit") :
        /\ i < j
        /\ repo.log[i].pre.index # {}
        /\ repo.log[i].post.commits = 1
        /\ repo.log[j].pre.index = {}
        /\ repo.log[j].post.commits = 1

\* C19: in a repository with a base branch, create_branch called twice with the
\* same name raises neither time, and the checked-out branch is that name after
\* each call.
C19_CreateBranchTwice ==
    \A i \in CallsOf("create_branch"), j \in CallsOf("create_branch") :
        (i < j /\ repo.log[i].arg = repo.log[j].arg /\ detect_base_branch(repo.log[i].pre).ok) =>
            /\ ~repo.log[i].raised
            /\ ~repo.log[j].raised
            /\ {repo.log[i].post.head} = repo.log[i].arg
            /\ {repo.log[j].post.head} = repo.log[j].arg

\* C19's case: the branch did not exist, the first call creates it and the next
\* call finds it
C19_Witness ==
    /\ Len(repo.log) >= 2
    /\ repo.log[1].op = "create_branch" /\ repo.log[2].op = "create_branch"
    /\ repo.log[1].arg = {"feat"} /\ repo.log[2].arg = {"feat"}
    /\ "feat" \notin repo.log[1].pre.branches
    /\ repo.log[1].cmds[Len(repo.log[1].cmds)] = "checkout -b"
    /\ repo.log[2].cmds[Len(repo.log[2].cmds)] = "checkout"
    /\ ~repo.log[2].raised
    /\ repo.g.head = "feat"

\* C20: stage_files with no path raises and runs no command; with paths it runs
\* one git add, which stages the given changed paths and nothing else.
C20_StageExactlyGiven ==
    \A i \in CallsOf("stage_files") :
        LET c == repo.log[i]
        IN /\ c.arg = {} => (c.raised /\ c.cmds = <<>> /\ c.post = c.pre)
           /\ c.arg # {} => c.cmds = <<"add">>
           /\ (c.arg # {} /\ ~c.raised) =>
                 /\ c.post.index = c.pre.index \cup (c.arg \cap c.pre.changed)
                 /\ (c.post.index \ c.pre.index) \subseteq c.arg
                 /\ c.post.changed = c.pre.changed

\* C20's case: one of two changed paths is staged and the other stays unstaged,
\* after a call with no path
C20_Witness ==
    \E i \in CallsOf("stage_files"), j \in CallsOf("stage_files") :
        /\ i < j
        /\ repo.log[i].arg = {} /\ repo.log[i].raised
        /\ repo.log[j].arg = {"a"} /\ ~repo.log[j].raised
        /\ repo.log[j].pre.changed = {"a", "b"}
        /\ repo.log[j].pre.index = {}
        /\ repo.log[j].post.index = {"a"}

\* the git operations of the publish phase, in the order they ran
VcsOps == [i \in 1..Len(vcs) |-> vcs[i].op]

\* C21: the publish phase runs create branch, stage, commit, push in that order;
\* branch and staging whatever the push answer, commit and push only when it is
\* yes; with no publishable file it runs no git operation.
C21_PublishOrder ==
    /\ \E n \in 0..4 : VcsOps = SubSeq(<<"create_branch", "add", "commit", "push">>, 1, n)
    /\ passed_fixed_files = <<>> => vcs = <<>>
    /\ Len(vcs) > 2 => do_push
    /\ pc = "done" =>
          \/ passed_fixed_files = <<>> /\ vcs = <<>>
          \/ passed_fixed_files # <<>> /\ ~do_push /\ VcsOps = <<"create_branch", "add">>
          \/ passed_fixed_files # <<>> /\ do_push
                /\ VcsOps = <<"create_branch", "add", "commit", "push">>

\* C21's case: the run is over, a file was publishable, the push answer was no,
\* and the branch was created and the file staged
C21_Witness ==
    /\ pc = "done"
    /\ passed_fixed_files # <<>>
    /\ ~do_push
    /\ VcsOps = <<"create_branch", "add">>
    /\ vcs[2].files # {}

\* C24: every review in the ledger is a record that carries confirmed_bug and
\* corrected_has_bug.
C24_ReviewAlwaysRecord ==
    \A e \in 1..Len(final_results) :
        LET review == final_results[e].supervisor_review
        IN /\ review.isdict
           /\ review.d["confirmed_bug"] # Absent
           /\ review.d["corrected_has_bug"] # Absent

\* C26: the reason recorded for a fix skipped because the gate was disabled is
\* not the reason recorded when the gate was enabled and no bug was found.
C26_SkipReasonsDiffer ==
    \A e \in Decided :
        (~apply_fixes /\ decisions[e].bug_exists /\ final_results[e].fix_result.status = "skipped")
            => final_results[e].fix_result.error # SkipReason(TRUE, FALSE)

\* C27: two scanned files never have the same test file.
C27_TestFileUnique ==
    \A e1 \in 1..Len(final_results), e2 \in 1..Len(final_results) :
        (e1 # e2 /\ final_results[e1].unit_test_evaluation.test_file # <<>>)
            => final_results[e1].unit_test_evaluation.test_file
                  # final_results[e2].unit_test_evaluation.test_file

\* C30: for every entry, the file tested and published and the file the fix
\* agent works on are the scanned file of that entry.
C30_OneFilePerEntry ==
    /\ \A e \in Decided :
          /\ decisions[e].scanned_file_abs = TreeFiles[e]
          /\ final_results[e].fix_result.file_path \in {<<>>, TreeFiles[e]}
    /\ (fx.pc # "idle" /\ fx.caller = "main" /\ fx.target # <<>>) =>
          (fx.target = TreeFiles[idx] /\ fx.target = decisions[idx].scanned_file_abs)

\* C25: the detector's has_bug is read as the same boolean by the fusion, by the
\* fix agent's check, by the reviewer's fallback and by the report-driven gate.
C25_OneCoercion ==
    fuse.done =>
        /\ fuse.fix_agent = decisions[1].detector_has_bug
        /\ fuse.fallback = decisions[1].detector_has_bug
        /\ fuse.report_gate = decisions[1].detector_has_bug

\* the remarks of these wrappings have no brace
BraceFree == {"bare", "blank", "fenced", "fenced_prose", "prose"}

C23_OneRecovery ==
    rc.pc = "done" =>
        /\ rc.detector = rc.reviewer
        /\ rc.reviewer = rc.fixer
        /\ rc.fixer = rc.report_fixer

\* the stored report has an error and a raw text
SecondChance == /\ PyBool(Get(rc.stored.report, "error", VNone))
                /\ PyBool(Get(rc.stored.report, "raw_response_text", VNone))

\* the record the second chance must return when a record was recovered: the
\* stored excerpt only where the recovered record has none
WithExcerpt(recovered, stored) ==
    IF PyBool(Get(recovered, "code_excerpt", VNone)) \/ ~PyBool(Get(stored, "code_excerpt", VNone))
    THEN recovered
    ELSE [recovered EXCEPT !["code_excerpt"] = stored["code_excerpt"]]

\* C28: the second chance returns the stored report unless it has an error and
\* a raw text from which a record is recovered; then it returns that record, with
\* the stored excerpt where the record has none.
C28_SecondChance ==
    (rc.pc = "done" /\ ~rc.stored.raises) =>
        LET stored == rc.stored.report
            recovered == rc.second_chance
        IN IF SecondChance /\ recovered.ok /\ recovered.isdict
           THEN /\ rc.normalized = DictOf(WithExcerpt(recovered.d, stored))
                /\ rc.report_normalized = WithExcerpt(recovered.d, stored)
           ELSE /\ rc.normalized = DictOf(stored)
                /\ rc.report_normalized = stored

\* the commands of a push_branch call up to the staging, with the branch created
\* or checked out
BranchAndStage ==
    {<<"rev-parse --is-inside-work-tree", "checkout", "checkout -b", "add -A">>,
     <<"rev-parse --is-inside-work-tree", "checkout", "checkout -b", "checkout", "add -A">>}

\* C29: push_branch never raises and ends in SUCCESS, SKIPPED or FAIL. SUCCESS:
\* branch, staging, commit and push ran in that order and all succeeded. SKIPPED:
\* git status showed no change, and neither commit nor push ran. FAIL: the last
\* command that ran is the one reported, and it is one that fails on that
\* repository; when no command fails and there are changes the result is SUCCESS.
C29_PushBranchOutcome ==
    \A i \in CallsOf("push_branch") :
        LET c == repo.log[i]
            branch == CHOOSE x \in c.arg : TRUE
            n == Len(c.cmds)
            changes == c.pre.changed \cup c.pre.index
        IN /\ ~c.raised
           /\ c.status \in {"SUCCESS", "SKIPPED", "FAIL"}
           /\ c.status = "SUCCESS" =>
                 /\ \E head \in BranchAndStage :
                       c.cmds = head \o <<"status --porcelain", "commit", "rev-parse HEAD", "push">>
                 /\ changes # {}
                 /\ c.post.head = branch
                 /\ c.post.index = {}
                 /\ c.post.commits = c.pre.commits + 1
                 /\ branch \in c.post.pushed
                 /\ c.failed = ""
           /\ c.status = "SKIPPED" =>
                 /\ \E head \in BranchAndStage : c.cmds = head \o <<"status --porcelain">>
                 /\ changes = {}
                 /\ c.post.commits = c.pre.commits
                 /\ c.post.pushed = c.pre.pushed
                 /\ c.failed = ""
           /\ c.status = "FAIL" =>
                 /\ n > 0 /\ c.failed = c.cmds[n]
                 /\ \/ c.failed = "checkout" /\ n = 2 /\ "master" \notin c.pre.branches
                    \/ c.failed = "push" /\ ~c.pre.remote_up /\ c.post.pushed = c.pre.pushed
           /\ ("master" \in c.pre.branches /\ c.pre.remote_up /\ changes # {}) => c.status = "SUCCESS"
           /\ ("master" \in c.pre.branches /\ changes = {}) => c.status = "SKIPPED"

\* C29's case: a call that created the branch, committed and pushed, then a call
\* that found nothing to commit
C29_Witness ==
    \E i \in CallsOf("push_branch"), j \in CallsOf("push_branch") :
        /\ i < j
        /\ repo.log[i].status = "SUCCESS"
        /\ "checkout -b" \in Range(repo.log[i].cmds)
        /\ repo.log[i].post.commits = 1
        /\ "fix" \in repo.log[i].post.pushed
        /\ repo.log[j].status = "SKIPPED"

\* C31: when fix_bug returns patched, the target holds the proposed body and
\* after_hash is the fingerprint of the proposed body.
C31_PatchedIsProposed ==
    (fx.pc = "ret" /\ fx.result.status = "patched") =>
        /\ disk[fx.target].data = fx.fixed_code
        /\ fx.result.after_hash = Sha256(fx.fixed_code)

\* C32: a publish phase pushes only after its commit was created: whenever git
\* push ran, git commit ran before it and the branch has one more commit.
C32_PushOnlyAfterCommit ==
    \A i \in CallsOf("publish") :
        LET c == repo.log[i]
        IN "push" \in Range(c.cmds) =>
              /\ "commit" \in Range(c.cmds)
              /\ c.post.commits = c.pre.commits + 1

====
